---- MODULE Spec2Model ----
(***************************************************************************)
(* Bounded registers: range-checked field values (bounds.rs), fields and   *)
(* their '+' combination (register.rs), and the register generated by the  *)
(* register! macro in its three modes RO, WO and RW (macros.rs).            *)
(*                                                                         *)
(* A register is one cell of type Width.  Width is u8/u16/u32/u64 in the   *)
(* source; here it is an unsigned integer of RegBits bits and every        *)
(* operation on it keeps that width.  Field declarations are the           *)
(* well-formed ones (offset + width <= RegBits), so no shift amount ever   *)
(* reaches the width of the type.                                          *)
(***************************************************************************)
EXTENDS Integers, Sequences, FiniteSets, TLC

VARIABLES reg, pre, op, arg, ret, lastStore, terms, sums,
          mode, accesses, copy, ctx

vars == <<reg, pre, op, arg, ret, lastStore, terms, sums,
          mode, accesses, copy, ctx>>

(***************************************************************************)
(* Bounds of the model.                                                    *)
(***************************************************************************)
\* bits of the register's numeric type Width
RegBits == 4
\* largest literal an enumerated constant is declared with
MaxLiteral == 4
Modulus == 2 ^ RegBits
Word == 0 .. (Modulus - 1)

(***************************************************************************)
(* The operators of Width: & | ! << >> on an unsigned RegBits-bit integer. *)
(***************************************************************************)
RECURSIVE AndBits(_, _)
AndBits(a, b) ==
    IF a = 0 \/ b = 0 THEN 0
    ELSE (a % 2) * (b % 2) + 2 * AndBits(a \div 2, b \div 2)

RECURSIVE OrBits(_, _)
OrBits(a, b) ==
    IF a = 0 THEN b
    ELSE IF b = 0 THEN a
    ELSE ((a % 2) + (b % 2) - (a % 2) * (b % 2)) + 2 * OrBits(a \div 2, b \div 2)

\* a & b and a | b, tabulated once over the values of Width
AndTable == [a \in Word |-> [b \in Word |-> AndBits(a, b)]]
OrTable == [a \in Word |-> [b \in Word |-> OrBits(a, b)]]

BitAnd(a, b) == AndTable[a][b]

BitOr(a, b) == OrTable[a][b]

BitNot(a) == (Modulus - 1) - a

\* n < RegBits for every well-formed declaration; bits shifted past the
\* width are dropped
Shl(a, n) == (a * (2 ^ n)) % Modulus

Shr(a, n) == a \div (2 ^ n)

(***************************************************************************)
(* bounds.rs                                                               *)
(***************************************************************************)
None == [kind |-> "None"]
Some(x) == [kind |-> "Some", v |-> x]
Unit == [kind |-> "Unit"]
WordVal(x) == [kind |-> "Word", v |-> x]

\* ReifyTo<Width>: the type-level number as a value of Width
Reify(n) == n % Modulus

\* Bounded<N, L, U>
Bounded(val, L, U) == [kind |-> "Bounded", val |-> val, L |-> L, U |-> U]

\* Bounded::new with the upper bound taken as exclusive: a faulty variant
\* the properties must tell from the code
BoundedNewExclusive(val, L, U) ==
    IF val >= Reify(L) /\ val < Reify(U)
    THEN Some(Bounded(val, L, U))
    ELSE None

\* Bounded::new
BoundedNew(val, L, U) ==
    IF val >= Reify(L) /\ val <= Reify(U)
    THEN Some(Bounded(val, L, U))
    ELSE None

\* Bounded::checked reifying its upper bound in place of V: a faulty
\* variant
BoundedCheckedUpper(V, L, U) == Bounded(Reify(U), L, U)

\* Bounded::checked::<V>(), callable only where L <= V <= U typechecks
BoundedChecked(V, L, U) == Bounded(Reify(V), L, U)

(***************************************************************************)
(* macros.rs, fields!: the Field type of a declaration                     *)
(*   F<Width, ((U1 << width) - U1) << offset, offset, (U1 << width) - U1>  *)
(* M, O and U are type-level numbers (unbounded naturals).                 *)
(***************************************************************************)
\* the Field type with the mask left unshifted: a faulty variant
FieldDeclUnshifted(width, offset) ==
    [width |-> width,
     offset |-> offset,
     M |-> (2 ^ width) - 1,
     O |-> offset,
     U |-> (2 ^ width) - 1]

FieldDecl(width, offset) ==
    [width |-> width,
     offset |-> offset,
     M |-> ((2 ^ width) - 1) * (2 ^ offset),
     O |-> offset,
     U |-> (2 ^ width) - 1]

WellFormed ==
    {wo \in (1 .. RegBits) \X (0 .. (RegBits - 1)) : wo[1] + wo[2] <= RegBits}

Decls == {FieldDecl(wo[1], wo[2]) : wo \in WellFormed}

(***************************************************************************)
(* register.rs: Field<W, M, O, U>                                          *)
(***************************************************************************)
\* struct Field { val: Bounded<W, U0, U>, _mask, _offset }
MkField(d, b) == [kind |-> "Field", d |-> d, val |-> b.val]

\* Field::new truncating the value to the field's width instead of
\* refusing it: a faulty variant
FieldNewTruncating(d, val) == Some(MkField(d, Bounded(val % (d.U + 1), 0, d.U)))

\* Field::new
FieldNew(d, val) ==
    LET b == BoundedNew(val, 0, d.U)
    IN  IF b = None THEN None ELSE Some(MkField(d, b.v))

\* Field::set testing the value and then keeping the one self carries: a
\* faulty variant
FieldSetKeepingOwn(self, val) ==
    LET b == BoundedNew(val, 0, self.d.U)
    IN  IF b = None THEN None ELSE Some(self)

\* Field::set
FieldSet(self, val) ==
    LET b == BoundedNew(val, 0, self.d.U)
    IN  IF b = None THEN None ELSE Some(MkField(self.d, b.v))

\* Field::checked::<V>(), callable only where 0 <= V <= U typechecks
FieldChecked(d, V) == MkField(d, BoundedChecked(V, 0, d.U))

\* Field::val
FieldVal(f) == f.val

\* Field::is_set: self.val.val == U::reify()
FieldIsSet(f) == FieldVal(f) = Reify(f.d.U)

(***************************************************************************)
(* macros.rs, fields! and enums!: the constants of a declaration.  Each is *)
(* written as a struct literal; none goes through Bounded::new.            *)
(***************************************************************************)
\* pub const Read: Field = F { val: Bounded { val: 0, .. }, .. }
ReadConst(d) == MkField(d, Bounded(0, 0, d.U))

\* The literals of ((1 << $width::USIZE) - 1) as Width have no type given,
\* and a cast gives none: they are i32, whatever Width is.  IntBits is the
\* width of i32 beside a Width of RegBits bits (32 bits beside u8).  The
\* expression is evaluated at build time, where an overflow is an error.
IntBits == 4 * RegBits

IntVal(x) == [kind |-> "Int", v |-> x]
Overflow == [kind |-> "Overflow"]

\* a << n in i32: n must be below the width of the type; the bits shifted
\* into and past the sign bit give a two's complement value
ShlInt(a, n) ==
    IF n >= IntBits THEN Overflow
    ELSE LET u == (a * (2 ^ n)) % (2 ^ IntBits)
         IN  IntVal(IF u >= 2 ^ (IntBits - 1) THEN u - 2 ^ IntBits ELSE u)

\* a - b in i32
SubInt(a, b) ==
    IF a - b < -(2 ^ (IntBits - 1)) \/ a - b > 2 ^ (IntBits - 1) - 1
    THEN Overflow
    ELSE IntVal(a - b)

\* (1 << $width::USIZE) - 1
SetExpr(width) ==
    LET s == ShlInt(1, width)
    IN  IF s = Overflow THEN Overflow ELSE SubInt(s.v, 1)

\* x as Width, for an unsigned Width of the given number of bits
AsWidth(x, bits) == x % (2 ^ bits)

\* pub const Set holding 1, the maximum of a 1-bit field, for every
\* width: a faulty variant
SetConstOne(d) == MkField(d, Bounded(1, 0, d.U))

\* pub const Set: val: ((1 << $width::USIZE) - 1) as Width; no field of a
\* Width of RegBits bits is wide enough for the expression to overflow
SetConst(d) ==
    MkField(d, Bounded(AsWidth(SetExpr(d.width).v, RegBits), 0, d.U))

\* pub const Clear: Field = Read
ClearConst(d) == ReadConst(d)

\* pub const $name: val: $val::USIZE as Width
EnumConst(d, literal) == MkField(d, Bounded(literal % Modulus, 0, d.U))

Literals == 0 .. MaxLiteral

(***************************************************************************)
(* register.rs: Positioned, FieldDisj and the three Add impls              *)
(***************************************************************************)
FieldDisj(mask, val) == [kind |-> "FieldDisj", mask |-> mask, val |-> val]

\* Positioned::mask
Mask(p) == IF p.kind = "Field" THEN Reify(p.d.M) ELSE p.mask

\* Positioned::in_position
InPosition(p) ==
    IF p.kind = "Field" THEN Shl(FieldVal(p), Reify(p.d.O)) ELSE p.val

\* impl Add<Field> for Field
AddFieldField(self, rhs) ==
    FieldDisj(Reify(BitOr(self.d.M, rhs.d.M)),
              BitOr(Shl(FieldVal(self), Reify(self.d.O)),
                    Shl(FieldVal(rhs), Reify(rhs.d.O))))

\* Field + FieldDisj losing the value of the Field: a faulty variant
AddFieldDisjDropSelf(self, rhs) ==
    FieldDisj(BitOr(Reify(self.d.M), Mask(rhs)), rhs.val)

\* impl Add<FieldDisj> for Field
AddFieldDisj(self, rhs) ==
    FieldDisj(BitOr(Reify(self.d.M), Mask(rhs)),
              BitOr(Shl(FieldVal(self), Reify(self.d.O)), rhs.val))

\* FieldDisj + Field keeping the mask of the FieldDisj alone: a faulty
\* variant
AddDisjFieldKeepMask(self, rhs) ==
    FieldDisj(self.mask,
              BitOr(self.val, Shl(FieldVal(rhs), Reify(rhs.d.O))))

\* impl Add<Field> for FieldDisj
AddDisjField(self, rhs) ==
    FieldDisj(BitOr(self.mask, Reify(rhs.d.M)),
              BitOr(self.val, Shl(FieldVal(rhs), Reify(rhs.d.O))))

(***************************************************************************)
(* The values a caller can hold.                                           *)
(***************************************************************************)
\* every Field a caller can obtain: from Field::new and from the constants
Fields ==
    {r.v : r \in {FieldNew(d, v) : d \in Decls, v \in Word} \ {None}}
    \cup {ReadConst(d) : d \in Decls}
    \cup {SetConst(d) : d \in Decls}
    \cup {EnumConst(d, l) : d \in Decls, l \in Literals}

\* a + b
Sums2 == {AddFieldField(a, b) : a \in Fields, b \in Fields}

\* (a + b) + c and a + (b + c)
Sums3 ==
    {AddDisjField(x, f) : x \in Sums2, f \in Fields}
    \cup {AddFieldDisj(f, x) : f \in Fields, x \in Sums2}

\* every argument modify is called with: a Field or a '+' chain of fields
Positioneds == Fields \cup Sums2 \cup Sums3

(***************************************************************************)
(* macros.rs, mode!(RW): Register(Width) and impl ReadWriteRegister        *)
(***************************************************************************)
\* the accesses to the register's cell: ptr::read_volatile and
\* ptr::write_volatile
Load(v) == [kind |-> "load", v |-> v]
Store(v) == [kind |-> "store", v |-> v]

\* no context is inside a modify
NoCtx == [c \in {} |-> Unit]

\* modify storing the new bits alone, as write does: a faulty variant
ModifyValueOverwrite(raw, p) == InPosition(p)

\* modify leaving the old bits of the field set: a faulty variant
ModifyValueOrOnly(raw, p) == BitOr(raw, InPosition(p))

\* the value modify stores: (read_volatile & !val.mask()) | val.in_position()
ModifyValue(raw, p) == BitOr(BitAnd(raw, BitNot(Mask(p))), InPosition(p))

\* get_field without the shift by the offset: a faulty variant
GetFieldValueUnshifted(raw, f) == FieldSet(f, BitAnd(raw, Reify(f.d.M)))

\* the value get_field returns: f.set((read_volatile & M) >> O)
GetFieldValue(raw, f) ==
    FieldSet(f, Shr(BitAnd(raw, Reify(f.d.M)), Reify(f.d.O)))

\* write keeping the bits already set in the register: a faulty variant
WriteValueKeepingBits(raw, val) == BitOr(raw, val)

\* the value write stores: write_volatile(&mut self.0, val)
WriteValue(raw, val) == val

BoolVal(b) == [kind |-> "Bool", v |-> b]

\* the value read returns
ReadValue(raw) == raw

\* is_set true as soon as one bit of the field is 1: a faulty variant
IsSetValueAnyBit(raw, f) == BitAnd(raw, Reify(f.d.M)) # 0

\* the value is_set returns: ((read_volatile & M) >> O) == U
IsSetValue(raw, f) ==
    Shr(BitAnd(raw, Reify(f.d.M)), Reify(f.d.O)) = Reify(f.d.U)

\* the value matches_any returns: (val.in_position() & read_volatile) != 0
MatchesAnyValue(raw, p) == BitAnd(InPosition(p), raw) # 0

\* the value matches_all returns:
\* (val.in_position() & read_volatile) == val.in_position()
MatchesAllValue(raw, p) == BitAnd(InPosition(p), raw) = InPosition(p)

\* modify storing the positioned value without reading the register: a
\* faulty variant
ModifyAccessesBlind(raw, p) == <<Store(InPosition(p))>>

\* the accesses of modify: the read_volatile inside the argument of the
\* write_volatile, then the write_volatile
ModifyAccesses(raw, p) == <<Load(raw), Store(ModifyValue(raw, p))>>

NoStore == [kind |-> "none"]
NoSums == [ab |-> None, ba |-> None, bc |-> None, ab_c |-> None, a_bc |-> None]

(***************************************************************************)
(* State.  reg is the register's cell and mode the mode it is declared     *)
(* with.  op, arg and ret record the call that has just returned, pre the  *)
(* cell before it and accesses the volatile accesses it made, in order;    *)
(* op = "idle" between calls.  lastStore is the new, write or modify that  *)
(* a read of the register immediately follows.  copy is the ReadOnlyCopy   *)
(* the caller holds, ctx the contexts that are inside a modify.            *)
(***************************************************************************)
\* Register::new(init)
Init ==
    /\ reg \in Word
    /\ pre = reg
    /\ op = "new"
    /\ arg = WordVal(reg)
    /\ ret = Unit
    /\ lastStore = [kind |-> "new", v |-> reg, was |-> reg]
    /\ terms = <<>>
    /\ sums = NoSums
    /\ mode = "RW"
    /\ accesses = <<>>
    /\ copy = None
    /\ ctx = NoCtx

\* the caller is done with the result of the last call
Return ==
    /\ op # "idle"
    /\ op' = "idle"
    /\ arg' = Unit
    /\ ret' = Unit
    /\ pre' = reg
    /\ lastStore' = NoStore
    /\ accesses' = <<>>
    /\ UNCHANGED <<reg, terms, sums, mode, copy, ctx>>

\* ReadWriteRegister::modify
Modify ==
    /\ mode = "RW"
    /\ op = "idle"
    /\ \E p \in Positioneds :
        /\ reg' = ModifyValue(reg, p)
        /\ pre' = reg
        /\ op' = "modify"
        /\ arg' = p
        /\ ret' = Unit
        /\ lastStore' = [kind |-> "modify", p |-> p]
        /\ accesses' = ModifyAccesses(reg, p)
        /\ UNCHANGED <<terms, sums, mode, copy, ctx>>

\* ReadWriteRegister::write
Write ==
    /\ mode = "RW"
    /\ op = "idle"
    /\ \E v \in Word :
        /\ reg' = WriteValue(reg, v)
        /\ pre' = reg
        /\ op' = "write"
        /\ arg' = WordVal(v)
        /\ ret' = Unit
        /\ lastStore' = [kind |-> "write", v |-> v, was |-> reg]
        /\ accesses' = <<Store(WriteValue(reg, v))>>
        /\ UNCHANGED <<terms, sums, mode, copy, ctx>>

\* a read may follow a store at once
CanRead == op \in {"idle", "new", "write", "modify"}

\* ReadWriteRegister::read
Read ==
    /\ mode = "RW"
    /\ CanRead
    /\ op' = "read"
    /\ arg' = Unit
    /\ ret' = WordVal(reg)
    /\ pre' = reg
    /\ accesses' = <<Load(reg)>>
    /\ UNCHANGED <<reg, lastStore, terms, sums, mode, copy, ctx>>

\* ReadWriteRegister::get_field, given the constant Read or Set of a field
GetField ==
    /\ mode = "RW"
    /\ CanRead
    /\ \E d \in Decls :
        \E f \in {ReadConst(d), SetConst(d)} :
            /\ op' = "get_field"
            /\ arg' = f
            /\ ret' = GetFieldValue(reg, f)
            /\ pre' = reg
            /\ accesses' = <<Load(reg)>>
            /\ UNCHANGED <<reg, lastStore, terms, sums, mode, copy, ctx>>

\* Field::new
NewField ==
    /\ op = "idle"
    /\ \E d \in Decls, v \in Word :
        /\ op' = "Field::new"
        /\ arg' = [d |-> d, val |-> v]
        /\ ret' = FieldNew(d, v)
        /\ pre' = reg
        /\ lastStore' = NoStore
        /\ accesses' = <<>>
        /\ UNCHANGED <<reg, terms, sums, mode, copy, ctx>>

\* Field::set, on the Field a constructor or constant has just given
SetField ==
    /\ op \in {"Field::new", "Field::checked", "const"}
    /\ ret.kind = "Some"
    /\ ret.v.kind = "Field"
    /\ \E v \in Word :
        /\ op' = "Field::set"
        /\ arg' = [d |-> ret.v.d, val |-> v]
        /\ ret' = FieldSet(ret.v, v)
        /\ pre' = reg
        /\ lastStore' = NoStore
        /\ accesses' = <<>>
        /\ UNCHANGED <<reg, terms, sums, mode, copy, ctx>>

\* Field::checked::<V>(): V <= U is a constraint of the signature
CheckedField ==
    /\ op = "idle"
    /\ \E d \in Decls :
        \E V \in 0 .. d.U :
            /\ op' = "Field::checked"
            /\ arg' = [d |-> d, val |-> V]
            /\ ret' = Some(FieldChecked(d, V))
            /\ pre' = reg
            /\ lastStore' = NoStore
            /\ accesses' = <<>>
            /\ UNCHANGED <<reg, terms, sums, mode, copy, ctx>>

\* a use of one of the generated constants of a declaration: Read, Set,
\* Clear or an enumerated constant
ConstField ==
    /\ op = "idle"
    /\ \E d \in Decls :
        \E c \in {[name |-> "Read", f |-> ReadConst(d)],
                  [name |-> "Set", f |-> SetConst(d)],
                  [name |-> "Clear", f |-> ClearConst(d)]}
                 \cup {[name |-> "Enum", f |-> EnumConst(d, l)] : l \in Literals} :
            /\ op' = "const"
            /\ arg' = [d |-> d, name |-> c.name]
            /\ ret' = Some(c.f)
            /\ pre' = reg
            /\ lastStore' = NoStore
            /\ accesses' = <<>>
            /\ UNCHANGED <<reg, terms, sums, mode, copy, ctx>>

Next ==
    \/ Return
    \/ Modify
    \/ Write
    \/ Read
    \/ GetField
    \/ NewField
    \/ SetField
    \/ CheckedField
    \/ ConstField

Spec == Init /\ [][Next]_vars

(***************************************************************************)
(* register.rs: ReadOnlyCopy(pub W) and impl ReadOnlyRegister for it       *)
(***************************************************************************)
ReadOnlyCopy(raw) == [kind |-> "ReadOnlyCopy", raw |-> raw]

\* the copy a caller holds: the ReadOnlyCopy, and the register's value when
\* it was taken
Held(c, at) == [c |-> c, at |-> at]

\* extract giving a copy of the default value, not of the register: a
\* faulty variant
ExtractValueDefault(raw) == ReadOnlyCopy(0)

\* the value extract returns: ReadOnlyCopy(read_volatile)
ExtractValue(raw) == ReadOnlyCopy(raw)

\* f.set((self.0 & M::reify()) >> O::reify())
CopyGetFieldValue(c, f) ==
    FieldSet(f, Shr(BitAnd(c.raw, Reify(f.d.M)), Reify(f.d.O)))

\* self.0
CopyReadValue(c) == c.raw

\* ReadOnlyCopy(self.0)
CopyExtractValue(c) == ReadOnlyCopy(c.raw)

\* ((self.0 & M::reify()) >> O::reify()) == U::reify()
CopyIsSetValue(c, f) ==
    Shr(BitAnd(c.raw, Reify(f.d.M)), Reify(f.d.O)) = Reify(f.d.U)

\* (val.in_position() & self.0) != W::default()
CopyMatchesAnyValue(c, p) == BitAnd(InPosition(p), c.raw) # 0

\* (val.in_position() & self.0) == val.in_position()
\* matches_all testing for a common bit as matches_any does: a faulty
\* variant
CopyMatchesAllValueNonZero(c, p) == BitAnd(InPosition(p), c.raw) # 0

CopyMatchesAllValue(c, p) == BitAnd(InPosition(p), c.raw) = InPosition(p)

(***************************************************************************)
(* macros.rs, mode!(RO): Register(Width) and impl ReadOnlyRegister         *)
(***************************************************************************)
\* get_field without the mask: a faulty variant
ROGetFieldValueUnmasked(raw, f) == FieldSet(f, Shr(raw, Reify(f.d.O)))

\* f.set((read_volatile & M::reify()) >> O::reify())
ROGetFieldValue(raw, f) ==
    FieldSet(f, Shr(BitAnd(raw, Reify(f.d.M)), Reify(f.d.O)))

ROReadValue(raw) == raw

ROExtractValue(raw) == ReadOnlyCopy(raw)

\* ((read_volatile & M::reify()) >> O::reify()) == U::reify()
ROIsSetValue(raw, f) ==
    Shr(BitAnd(raw, Reify(f.d.M)), Reify(f.d.O)) = Reify(f.d.U)

\* matches_any comparing with in_position as matches_all does: a faulty
\* variant
ROMatchesAnyValueEqual(raw, p) == BitAnd(InPosition(p), raw) = InPosition(p)

\* (val.in_position() & read_volatile) != 0
ROMatchesAnyValue(raw, p) == BitAnd(InPosition(p), raw) # 0

\* (val.in_position() & read_volatile) == val.in_position()
ROMatchesAllValue(raw, p) == BitAnd(InPosition(p), raw) = InPosition(p)

(***************************************************************************)
(* The arguments of the queries.                                           *)
(***************************************************************************)
\* the Fields Field::new gives
NewFields == {r.v : r \in {FieldNew(d, v) : d \in Decls, v \in Word} \ {None}}

\* the fields given to matches_any and matches_all: one field, or two
\* fields of disjoint masks joined by '+'
MatchArgs ==
    {<<a>> : a \in NewFields}
    \cup {ab \in NewFields \X NewFields :
            /\ ab[1].d.offset < ab[2].d.offset
            /\ BitAnd(Mask(ab[1]), Mask(ab[2])) = 0}

\* the Positioned value of the fields: f, or a + b
Joined(fs) == IF Len(fs) = 1 THEN fs[1] ELSE AddFieldField(fs[1], fs[2])

\* the argument of get_field and is_set: a Field of the declaration
Descriptors == {ReadConst(d) : d \in Decls} \cup {SetConst(d) : d \in Decls}

(***************************************************************************)
(* The queries of a register and of a ReadOnlyCopy of it.  The register    *)
(* is declared RO or RW; the caller holds at most the copy that the last   *)
(* extract gave.  A query of the copy makes no access to the register.     *)
(***************************************************************************)
\* Register::new(init), for a register declared RO or RW
InitQuery ==
    /\ reg \in Word
    /\ pre = reg
    /\ op = "new"
    /\ arg = WordVal(reg)
    /\ ret = Unit
    /\ lastStore = [kind |-> "new", v |-> reg, was |-> reg]
    /\ terms = <<>>
    /\ sums = NoSums
    /\ mode \in {"RO", "RW"}
    /\ accesses = <<>>
    /\ copy = None
    /\ ctx = NoCtx

\* ReadWriteRegister::extract
Extract ==
    /\ mode = "RW"
    /\ op = "idle"
    /\ op' = "extract"
    /\ arg' = Unit
    /\ ret' = ExtractValue(reg)
    /\ pre' = reg
    /\ lastStore' = NoStore
    /\ accesses' = <<Load(reg)>>
    /\ copy' = Held(ExtractValue(reg), reg)
    /\ UNCHANGED <<reg, terms, sums, mode, ctx>>

\* ReadWriteRegister::is_set
IsSet ==
    /\ mode = "RW"
    /\ op = "idle"
    /\ \E f \in Descriptors :
        /\ op' = "is_set"
        /\ arg' = f
        /\ ret' = BoolVal(IsSetValue(reg, f))
        /\ pre' = reg
        /\ lastStore' = NoStore
        /\ accesses' = <<Load(reg)>>
        /\ UNCHANGED <<reg, terms, sums, mode, copy, ctx>>

\* ReadWriteRegister::matches_any
MatchesAny ==
    /\ mode = "RW"
    /\ op = "idle"
    /\ \E fs \in MatchArgs :
        /\ op' = "matches_any"
        /\ arg' = [fields |-> fs, p |-> Joined(fs)]
        /\ ret' = BoolVal(MatchesAnyValue(reg, Joined(fs)))
        /\ pre' = reg
        /\ lastStore' = NoStore
        /\ accesses' = <<Load(reg)>>
        /\ UNCHANGED <<reg, terms, sums, mode, copy, ctx>>

\* ReadWriteRegister::matches_all
MatchesAll ==
    /\ mode = "RW"
    /\ op = "idle"
    /\ \E fs \in MatchArgs :
        /\ op' = "matches_all"
        /\ arg' = [fields |-> fs, p |-> Joined(fs)]
        /\ ret' = BoolVal(MatchesAllValue(reg, Joined(fs)))
        /\ pre' = reg
        /\ lastStore' = NoStore
        /\ accesses' = <<Load(reg)>>
        /\ UNCHANGED <<reg, terms, sums, mode, copy, ctx>>

\* ReadOnlyRegister::get_field (RO)
ROGetField ==
    /\ mode = "RO"
    /\ op = "idle"
    /\ \E f \in Descriptors :
        /\ op' = "get_field"
        /\ arg' = f
        /\ ret' = ROGetFieldValue(reg, f)
        /\ pre' = reg
        /\ lastStore' = NoStore
        /\ accesses' = <<Load(reg)>>
        /\ UNCHANGED <<reg, terms, sums, mode, copy, ctx>>

\* ReadOnlyRegister::read (RO)
RORead ==
    /\ mode = "RO"
    /\ op = "idle"
    /\ op' = "read"
    /\ arg' = Unit
    /\ ret' = WordVal(ROReadValue(reg))
    /\ pre' = reg
    /\ lastStore' = NoStore
    /\ accesses' = <<Load(reg)>>
    /\ UNCHANGED <<reg, terms, sums, mode, copy, ctx>>

\* ReadOnlyRegister::extract (RO)
ROExtract ==
    /\ mode = "RO"
    /\ op = "idle"
    /\ op' = "extract"
    /\ arg' = Unit
    /\ ret' = ROExtractValue(reg)
    /\ pre' = reg
    /\ lastStore' = NoStore
    /\ accesses' = <<Load(reg)>>
    /\ copy' = Held(ROExtractValue(reg), reg)
    /\ UNCHANGED <<reg, terms, sums, mode, ctx>>

\* ReadOnlyRegister::is_set (RO)
ROIsSet ==
    /\ mode = "RO"
    /\ op = "idle"
    /\ \E f \in Descriptors :
        /\ op' = "is_set"
        /\ arg' = f
        /\ ret' = BoolVal(ROIsSetValue(reg, f))
        /\ pre' = reg
        /\ lastStore' = NoStore
        /\ accesses' = <<Load(reg)>>
        /\ UNCHANGED <<reg, terms, sums, mode, copy, ctx>>

\* ReadOnlyRegister::matches_any (RO)
ROMatchesAny ==
    /\ mode = "RO"
    /\ op = "idle"
    /\ \E fs \in MatchArgs :
        /\ op' = "matches_any"
        /\ arg' = [fields |-> fs, p |-> Joined(fs)]
        /\ ret' = BoolVal(ROMatchesAnyValue(reg, Joined(fs)))
        /\ pre' = reg
        /\ lastStore' = NoStore
        /\ accesses' = <<Load(reg)>>
        /\ UNCHANGED <<reg, terms, sums, mode, copy, ctx>>

\* ReadOnlyRegister::matches_all (RO)
ROMatchesAll ==
    /\ mode = "RO"
    /\ op = "idle"
    /\ \E fs \in MatchArgs :
        /\ op' = "matches_all"
        /\ arg' = [fields |-> fs, p |-> Joined(fs)]
        /\ ret' = BoolVal(ROMatchesAllValue(reg, Joined(fs)))
        /\ pre' = reg
        /\ lastStore' = NoStore
        /\ accesses' = <<Load(reg)>>
        /\ UNCHANGED <<reg, terms, sums, mode, copy, ctx>>

\* ReadOnlyCopy::get_field
CopyGetField ==
    /\ copy # None
    /\ op = "idle"
    /\ \E f \in Descriptors :
        /\ op' = "copy.get_field"
        /\ arg' = f
        /\ ret' = CopyGetFieldValue(copy.c, f)
        /\ pre' = reg
        /\ lastStore' = NoStore
        /\ accesses' = <<>>
        /\ UNCHANGED <<reg, terms, sums, mode, copy, ctx>>

\* ReadOnlyCopy::read
CopyRead ==
    /\ copy # None
    /\ op = "idle"
    /\ op' = "copy.read"
    /\ arg' = Unit
    /\ ret' = WordVal(CopyReadValue(copy.c))
    /\ pre' = reg
    /\ lastStore' = NoStore
    /\ accesses' = <<>>
    /\ UNCHANGED <<reg, terms, sums, mode, copy, ctx>>

\* ReadOnlyCopy::extract
CopyExtract ==
    /\ copy # None
    /\ op = "idle"
    /\ op' = "copy.extract"
    /\ arg' = Unit
    /\ ret' = CopyExtractValue(copy.c)
    /\ pre' = reg
    /\ lastStore' = NoStore
    /\ accesses' = <<>>
    /\ UNCHANGED <<reg, terms, sums, mode, copy, ctx>>

\* ReadOnlyCopy::is_set
CopyIsSet ==
    /\ copy # None
    /\ op = "idle"
    /\ \E f \in Descriptors :
        /\ op' = "copy.is_set"
        /\ arg' = f
        /\ ret' = BoolVal(CopyIsSetValue(copy.c, f))
        /\ pre' = reg
        /\ lastStore' = NoStore
        /\ accesses' = <<>>
        /\ UNCHANGED <<reg, terms, sums, mode, copy, ctx>>

\* ReadOnlyCopy::matches_any
CopyMatchesAny ==
    /\ copy # None
    /\ op = "idle"
    /\ \E fs \in MatchArgs :
        /\ op' = "copy.matches_any"
        /\ arg' = [fields |-> fs, p |-> Joined(fs)]
        /\ ret' = BoolVal(CopyMatchesAnyValue(copy.c, Joined(fs)))
        /\ pre' = reg
        /\ lastStore' = NoStore
        /\ accesses' = <<>>
        /\ UNCHANGED <<reg, terms, sums, mode, copy, ctx>>

\* ReadOnlyCopy::matches_all
CopyMatchesAll ==
    /\ copy # None
    /\ op = "idle"
    /\ \E fs \in MatchArgs :
        /\ op' = "copy.matches_all"
        /\ arg' = [fields |-> fs, p |-> Joined(fs)]
        /\ ret' = BoolVal(CopyMatchesAllValue(copy.c, Joined(fs)))
        /\ pre' = reg
        /\ lastStore' = NoStore
        /\ accesses' = <<>>
        /\ UNCHANGED <<reg, terms, sums, mode, copy, ctx>>

\* Field::is_set, on the Field a constructor or constant has just given
IsSetField ==
    /\ op \in {"Field::new", "Field::checked", "const"}
    /\ ret.kind = "Some"
    /\ ret.v.kind = "Field"
    /\ op' = "Field::is_set"
    /\ arg' = ret.v
    /\ ret' = BoolVal(FieldIsSet(ret.v))
    /\ pre' = reg
    /\ lastStore' = NoStore
    /\ accesses' = <<>>
    /\ UNCHANGED <<reg, terms, sums, mode, copy, ctx>>

NextQuery ==
    \/ Return
    \/ Read
    \/ GetField
    \/ Extract
    \/ IsSet
    \/ MatchesAny
    \/ MatchesAll
    \/ ROGetField
    \/ RORead
    \/ ROExtract
    \/ ROIsSet
    \/ ROMatchesAny
    \/ ROMatchesAll
    \/ CopyGetField
    \/ CopyRead
    \/ CopyExtract
    \/ CopyIsSet
    \/ CopyMatchesAny
    \/ CopyMatchesAll
    \/ NewField
    \/ ConstField
    \/ IsSetField

SpecQuery == InitQuery /\ [][NextQuery]_vars

(***************************************************************************)
(* A ReadOnlyCopy while the RW register it was taken from goes on being    *)
(* written and modified.                                                   *)
(***************************************************************************)
\* ReadWriteRegister::modify, given one Field
ModifyField ==
    /\ mode = "RW"
    /\ op = "idle"
    /\ \E p \in Fields :
        /\ reg' = ModifyValue(reg, p)
        /\ pre' = reg
        /\ op' = "modify"
        /\ arg' = p
        /\ ret' = Unit
        /\ lastStore' = [kind |-> "modify", p |-> p]
        /\ accesses' = ModifyAccesses(reg, p)
        /\ UNCHANGED <<terms, sums, mode, copy, ctx>>

NextCopy ==
    \/ Return
    \/ Extract
    \/ Write
    \/ ModifyField
    \/ CopyGetField
    \/ CopyRead
    \/ CopyExtract
    \/ CopyIsSet
    \/ CopyMatchesAny
    \/ CopyMatchesAll

SpecCopy == Init /\ [][NextCopy]_vars

(***************************************************************************)
(* macros.rs, mode!(WO): Register(Width) and impl WriteOnlyRegister        *)
(***************************************************************************)
\* the value modify stores: (read_volatile & !val.mask()) | val.in_position()
WOModifyValue(raw, p) == BitOr(BitAnd(raw, BitNot(Mask(p))), InPosition(p))

\* the accesses of modify: the read_volatile inside the argument of the
\* write_volatile, then the write_volatile
WOModifyAccesses(raw, p) == <<Load(raw), Store(WOModifyValue(raw, p))>>

\* the value write stores: write_volatile(&mut self.0, val)
WOWriteValue(raw, val) == val

\* Register::new(init)
InitWO ==
    /\ reg \in Word
    /\ pre = reg
    /\ op = "new"
    /\ arg = WordVal(reg)
    /\ ret = Unit
    /\ lastStore = [kind |-> "new", v |-> reg, was |-> reg]
    /\ terms = <<>>
    /\ sums = NoSums
    /\ mode = "WO"
    /\ accesses = <<>>
    /\ copy = None
    /\ ctx = NoCtx

\* WriteOnlyRegister::modify
WOModify ==
    /\ mode = "WO"
    /\ op = "idle"
    /\ \E p \in Positioneds :
        /\ reg' = WOModifyValue(reg, p)
        /\ pre' = reg
        /\ op' = "modify"
        /\ arg' = p
        /\ ret' = Unit
        /\ lastStore' = [kind |-> "modify", p |-> p]
        /\ accesses' = WOModifyAccesses(reg, p)
        /\ UNCHANGED <<terms, sums, mode, copy, ctx>>

\* WriteOnlyRegister::write
WOWrite ==
    /\ mode = "WO"
    /\ op = "idle"
    /\ \E v \in Word :
        /\ reg' = WOWriteValue(reg, v)
        /\ pre' = reg
        /\ op' = "write"
        /\ arg' = WordVal(v)
        /\ ret' = Unit
        /\ lastStore' = [kind |-> "write", v |-> v, was |-> reg]
        /\ accesses' = <<Store(WOWriteValue(reg, v))>>
        /\ UNCHANGED <<terms, sums, mode, copy, ctx>>

NextWO ==
    \/ Return
    \/ WOModify
    \/ WOWrite

SpecWO == InitWO /\ [][NextWO]_vars

(***************************************************************************)
(* Two contexts (threads, or a thread and an interrupt handler) that each  *)
(* call modify once on the same RW register, with Fields of disjoint       *)
(* masks.  modify is a read_volatile and, later, a write_volatile: each is *)
(* one step of its context, and the steps of the two contexts interleave   *)
(* in every order.  accesses is the order the accesses took place in.      *)
(***************************************************************************)
Contexts == {1, 2}

\* an access of the register made by context c
By(c, access) == [c |-> c, kind |-> access.kind, v |-> access.v]

InitConc ==
    /\ reg \in Word
    /\ pre = reg
    /\ op = "idle"
    /\ arg = Unit
    /\ ret = Unit
    /\ lastStore = NoStore
    /\ terms = <<>>
    /\ sums = NoSums
    /\ mode = "RW"
    /\ accesses = <<>>
    /\ copy = None
    /\ \E a \in Fields, b \in Fields :
        /\ BitAnd(Mask(a), Mask(b)) = 0
        /\ ctx = <<[pc |-> "load", p |-> a, loaded |-> None],
                   [pc |-> "load", p |-> b, loaded |-> None]>>

\* modify, first half: ptr::read_volatile(&self.0)
ModifyLoad(c) ==
    /\ ctx[c].pc = "load"
    /\ ctx' = [ctx EXCEPT ![c] = [pc |-> "store", p |-> @.p, loaded |-> reg]]
    /\ accesses' = Append(accesses, By(c, Load(reg)))
    /\ UNCHANGED <<reg, pre, op, arg, ret, lastStore, terms, sums, mode, copy>>

\* modify, second half: ptr::write_volatile(&mut self.0, ..) of the value
\* computed from what was loaded
ModifyStore(c) ==
    /\ ctx[c].pc = "store"
    /\ reg' = ModifyValue(ctx[c].loaded, ctx[c].p)
    /\ ctx' = [ctx EXCEPT ![c] = [pc |-> "done", p |-> @.p, loaded |-> @.loaded]]
    /\ accesses' = Append(accesses, By(c, Store(reg')))
    /\ UNCHANGED <<pre, op, arg, ret, lastStore, terms, sums, mode, copy>>

NextConc ==
    \E c \in Contexts :
        \/ ModifyLoad(c)
        \/ ModifyStore(c)

SpecConc == InitConc /\ [][NextConc]_vars

(***************************************************************************)
(* The Set constant of the fields of a register whose Width is as wide as  *)
(* i32 (a u32 register): every field of width and offset with              *)
(* offset + width <= IntBits.                                              *)
(***************************************************************************)
InitSet ==
    /\ reg = 0
    /\ pre = 0
    /\ op = "idle"
    /\ arg = Unit
    /\ ret = Unit
    /\ lastStore = NoStore
    /\ terms = <<>>
    /\ sums = NoSums
    /\ mode = "RW"
    /\ accesses = <<>>
    /\ copy = None
    /\ ctx = NoCtx

\* fields!: pub const Set of a field of a register of IntBits bits
WideSet ==
    /\ op = "idle"
    /\ \E width \in 1 .. IntBits, offset \in 0 .. (IntBits - 1) :
        /\ offset + width <= IntBits
        /\ op' = "Set"
        /\ arg' = [width |-> width, offset |-> offset]
        /\ ret' = IF SetExpr(width) = Overflow
                  THEN Overflow
                  ELSE WordVal(AsWidth(SetExpr(width).v, IntBits))
        /\ pre' = reg
        /\ UNCHANGED <<reg, lastStore, terms, sums, mode, accesses, copy, ctx>>

NextSet ==
    \/ WideSet
    \/ Return

SpecSet == InitSet /\ [][NextSet]_vars

(***************************************************************************)
(* macros.rs, mode!: Register::new of the three arms.  The register is     *)
(* declared RO, WO or RW; reg is what its location holds, any value before *)
(* new; a readable register is read right after new.                       *)
(***************************************************************************)
\* new leaving the location at the default of Width: a faulty variant
NewValueDefault(init) == 0

\* the value new seeds: Register(init)
NewValue(init) == init

InitNew ==
    /\ reg \in Word
    /\ pre = reg
    /\ op = "idle"
    /\ arg = Unit
    /\ ret = Unit
    /\ lastStore = NoStore
    /\ terms = <<>>
    /\ sums = NoSums
    /\ mode \in {"RO", "WO", "RW"}
    /\ accesses = <<>>
    /\ copy = None
    /\ ctx = NoCtx

\* Register::new(init)
New ==
    /\ op = "idle"
    /\ \E init \in Word :
        /\ reg' = NewValue(init)
        /\ pre' = reg
        /\ op' = "new"
        /\ arg' = WordVal(init)
        /\ ret' = Unit
        /\ lastStore' = [kind |-> "new", v |-> NewValue(init), was |-> reg]
        /\ UNCHANGED <<terms, sums, mode, accesses, copy, ctx>>

\* read() as the first call after new, on an RO or an RW register
ReadAfterNew ==
    /\ op = "new"
    /\ mode \in {"RO", "RW"}
    /\ op' = "read"
    /\ ret' = WordVal(IF mode = "RO" THEN ROReadValue(reg) ELSE ReadValue(reg))
    /\ accesses' = <<Load(reg)>>
    /\ UNCHANGED <<reg, pre, arg, lastStore, terms, sums, mode, copy, ctx>>

NextNew ==
    \/ New
    \/ ReadAfterNew

SpecNew == InitNew /\ [][NextNew]_vars

(***************************************************************************)
(* A caller that gives in-range values to three fields of a ReadWrite      *)
(* register, one modify after the other with no two of them in progress    *)
(* at once, and reads the fields back.  terms are the three declarations,  *)
(* of pairwise disjoint masks; ctx is the caller's record: the value       *)
(* new(v) gave the register, the last value it gave each field, and        *)
(* whether it gave some field a value more than once.  pre, lastStore,     *)
(* accesses and the argument of modify are not kept here.                  *)
(***************************************************************************)
NoValues == <<None, None, None>>

InitSeq ==
    /\ reg \in Word
    /\ pre = reg
    /\ op = "new"
    /\ arg = WordVal(reg)
    /\ ret = Unit
    /\ lastStore = [kind |-> "new", v |-> reg, was |-> reg]
    /\ \E a \in Decls, b \in Decls, c \in Decls :
        /\ a.offset + a.width <= b.offset
        /\ b.offset + b.width <= c.offset
        /\ terms = <<a, b, c>>
    /\ sums = NoSums
    /\ mode = "RW"
    /\ accesses = <<>>
    /\ copy = None
    /\ ctx = [start |-> reg, last |-> NoValues, again |-> FALSE]

\* modify(f) with f an in-range value of the i-th field
ModifyTerm(i) ==
    \E v \in Word :
        /\ FieldNew(terms[i], v) # None
        /\ reg' = ModifyValue(reg, FieldNew(terms[i], v).v)
        /\ op' = "modify"
        /\ arg' = Unit
        /\ ret' = Unit
        /\ ctx' = [ctx EXCEPT !.last[i] = Some(v),
                              !.again = ctx.again \/ ctx.last[i] # None]
        /\ UNCHANGED <<pre, lastStore, terms, sums, mode, accesses, copy>>

\* modify(a + b + c) as the first call after new, with a, b and c in-range
\* values of the three fields
ModifyJoined ==
    /\ ctx.last = NoValues
    /\ \E va \in {v \in Word : FieldNew(terms[1], v) # None},
          vb \in {v \in Word : FieldNew(terms[2], v) # None},
          vc \in {v \in Word : FieldNew(terms[3], v) # None} :
        /\ reg' = ModifyValue(reg,
                              AddDisjField(AddFieldField(FieldNew(terms[1], va).v,
                                                         FieldNew(terms[2], vb).v),
                                           FieldNew(terms[3], vc).v))
        /\ op' = "modify"
        /\ arg' = Unit
        /\ ret' = Unit
        /\ ctx' = [ctx EXCEPT !.last = <<Some(va), Some(vb), Some(vc)>>]
        /\ UNCHANGED <<pre, lastStore, terms, sums, mode, accesses, copy>>

\* get_field(F::Read) of the i-th field
GetTerm(i) ==
    /\ op' = "get_field"
    /\ arg' = ReadConst(terms[i])
    /\ ret' = GetFieldValue(reg, ReadConst(terms[i]))
    /\ UNCHANGED <<reg, pre, lastStore, terms, sums, mode, accesses, copy, ctx>>

NextSeq ==
    \/ \E i \in 1 .. 3 : ModifyTerm(i)
    \/ ModifyJoined
    \/ \E i \in 1 .. 3 : GetTerm(i)

SpecSeq == InitSeq /\ [][NextSeq]_vars

(***************************************************************************)
(* Bounded::new on its own, with any bounds L < U of the numeric type      *)
(* (U: IsGreater<L> is a constraint of the impl).                          *)
(***************************************************************************)
InitBounded ==
    /\ reg = 0
    /\ pre = 0
    /\ op = "idle"
    /\ arg = Unit
    /\ ret = Unit
    /\ lastStore = NoStore
    /\ terms = <<>>
    /\ sums = NoSums
    /\ mode = "RW"
    /\ accesses = <<>>
    /\ copy = None
    /\ ctx = NoCtx

\* Bounded::new
NewBounded ==
    /\ op = "idle"
    /\ \E v \in Word, L \in Word, U \in Word :
        /\ L < U
        /\ op' = "Bounded::new"
        /\ arg' = [val |-> v, L |-> L, U |-> U]
        /\ ret' = BoundedNew(v, L, U)
        /\ pre' = reg
        /\ UNCHANGED <<reg, lastStore, terms, sums, mode, accesses, copy, ctx>>

\* Bounded::checked::<V>(); the where clause V: IsLessOrEqual<U>,
\* V: IsGreaterOrEqual<L> leaves no call with V outside L .. U to run
CheckedBounded ==
    /\ op = "idle"
    /\ \E L \in Word, U \in Word :
        /\ L < U
        /\ \E V \in L .. U :
            /\ op' = "Bounded::checked"
            /\ arg' = [val |-> V, L |-> L, U |-> U]
            /\ ret' = BoundedChecked(V, L, U)
        /\ pre' = reg
        /\ UNCHANGED <<reg, lastStore, terms, sums, mode, accesses, copy, ctx>>

NextBounded ==
    \/ NewBounded
    \/ CheckedBounded
    \/ CheckedField
    \/ Return

SpecBounded == InitBounded /\ [][NextBounded]_vars

(***************************************************************************)
(* The '+' of register.rs on its own.  terms are the fields a caller       *)
(* joins: any two fields, or three fields of pairwise disjoint masks.      *)
(* sums holds the results of a + b, b + a, b + c, (a + b) + c and          *)
(* a + (b + c) once they are computed.                                     *)
(***************************************************************************)
Disjoint(p, q) == BitAnd(Mask(p), Mask(q)) = 0

InitAlg ==
    /\ reg = 0
    /\ pre = 0
    /\ op = "idle"
    /\ arg = Unit
    /\ ret = Unit
    /\ lastStore = NoStore
    /\ sums = NoSums
    /\ mode = "RW"
    /\ accesses = <<>>
    /\ copy = None
    /\ ctx = NoCtx
    /\ \E a \in Fields, b \in Fields :
        \/ terms = <<a, b>>
        \/ /\ Disjoint(a, b)
           /\ \E c \in Fields :
               /\ Disjoint(a, c)
               /\ Disjoint(b, c)
               /\ terms = <<a, b, c>>

\* Field + Field: a + b, b + a, b + c
PlusFieldField ==
    \E e \in {[l |-> 1, r |-> 2, slot |-> "ab"],
              [l |-> 2, r |-> 1, slot |-> "ba"],
              [l |-> 2, r |-> 3, slot |-> "bc"]} :
        /\ Len(terms) >= e.l
        /\ Len(terms) >= e.r
        /\ sums[e.slot] = None
        /\ sums' = [sums EXCEPT ![e.slot] = AddFieldField(terms[e.l], terms[e.r])]
        /\ UNCHANGED <<reg, pre, op, arg, ret, lastStore, terms,
                     mode, accesses, copy, ctx>>

\* FieldDisj + Field: (a + b) + c
PlusDisjField ==
    /\ Len(terms) = 3
    /\ sums.ab # None
    /\ sums.ab_c = None
    /\ sums' = [sums EXCEPT !.ab_c = AddDisjField(sums.ab, terms[3])]
    /\ UNCHANGED <<reg, pre, op, arg, ret, lastStore, terms,
                     mode, accesses, copy, ctx>>

\* Field + FieldDisj: a + (b + c)
PlusFieldDisj ==
    /\ Len(terms) = 3
    /\ sums.bc # None
    /\ sums.a_bc = None
    /\ sums' = [sums EXCEPT !.a_bc = AddFieldDisj(terms[1], sums.bc)]
    /\ UNCHANGED <<reg, pre, op, arg, ret, lastStore, terms,
                     mode, accesses, copy, ctx>>

NextAlg ==
    \/ PlusFieldField
    \/ PlusDisjField
    \/ PlusFieldDisj

SpecAlg == InitAlg /\ [][NextAlg]_vars

(***************************************************************************)
(* A caller that joins two fields of overlapping masks, which no bound of  *)
(* the '+' impls excludes, gives the sum to modify and reads the first     *)
(* field back.  terms are the two fields; sums.ab is a + b.                *)
(***************************************************************************)
InitOverlap ==
    /\ reg \in Word
    /\ pre = reg
    /\ op = "new"
    /\ arg = WordVal(reg)
    /\ ret = Unit
    /\ lastStore = [kind |-> "new", v |-> reg, was |-> reg]
    /\ \E a \in Fields, b \in Fields :
        /\ ~Disjoint(a, b)
        /\ terms = <<a, b>>
    /\ sums = NoSums
    /\ mode = "RW"
    /\ accesses = <<>>
    /\ copy = None
    /\ ctx = NoCtx

\* Field + Field: a + b
PlusOverlapping ==
    /\ sums.ab = None
    /\ sums' = [sums EXCEPT !.ab = AddFieldField(terms[1], terms[2])]
    /\ UNCHANGED <<reg, pre, op, arg, ret, lastStore, terms,
                   mode, accesses, copy, ctx>>

\* modify(a + b)
ModifyOverlapping ==
    /\ sums.ab # None
    /\ op = "new"
    /\ reg' = ModifyValue(reg, sums.ab)
    /\ pre' = reg
    /\ op' = "modify"
    /\ arg' = sums.ab
    /\ ret' = Unit
    /\ lastStore' = [kind |-> "modify", p |-> sums.ab]
    /\ accesses' = ModifyAccesses(reg, sums.ab)
    /\ UNCHANGED <<terms, sums, mode, copy, ctx>>

\* get_field(A::Read) of the declaration of a, after the modify
GetOverlapped ==
    /\ op = "modify"
    /\ op' = "get_field"
    /\ arg' = ReadConst(terms[1].d)
    /\ ret' = GetFieldValue(reg, ReadConst(terms[1].d))
    /\ accesses' = <<Load(reg)>>
    /\ UNCHANGED <<reg, pre, lastStore, terms, sums, mode, copy, ctx>>

NextOverlap ==
    \/ PlusOverlapping
    \/ ModifyOverlapping
    \/ GetOverlapped

SpecOverlap == InitOverlap /\ [][NextOverlap]_vars

(***************************************************************************)
(* A chain of four fields a + b + c + d under its groupings.  '+' is the   *)
(* Add trait: an expression l + r compiles only where an impl of Add for   *)
(* the two operand types exists.  sums holds the result of each grouping   *)
(* once it is evaluated.                                                   *)
(***************************************************************************)
\* the impls of Add in register.rs, as <<type of self, type of rhs>>
AddImpls ==
    {<<"Field", "Field">>, <<"Field", "FieldDisj">>, <<"FieldDisj", "Field">>}

\* l + r where no impl of Add applies: the expression has no value
NoImpl == [kind |-> "NoImpl"]

\* l + r
Plus(l, r) ==
    IF <<l.kind, r.kind>> \notin AddImpls THEN NoImpl
    ELSE IF l.kind = "Field" /\ r.kind = "Field" THEN AddFieldField(l, r)
    ELSE IF l.kind = "Field" THEN AddFieldDisj(l, r)
    ELSE AddDisjField(l, r)

NoGroupings == [left |-> None, right |-> None, pairs |-> None]

InitChain ==
    /\ reg = 0
    /\ pre = 0
    /\ op = "idle"
    /\ arg = Unit
    /\ ret = Unit
    /\ lastStore = NoStore
    /\ sums = NoGroupings
    /\ mode = "RW"
    /\ accesses = <<>>
    /\ copy = None
    /\ ctx = NoCtx
    /\ \E a \in Fields, b \in Fields :
        /\ Disjoint(a, b)
        /\ \E c \in Fields :
            /\ Disjoint(a, c)
            /\ Disjoint(b, c)
            /\ \E d \in Fields :
                /\ Disjoint(a, d)
                /\ Disjoint(b, d)
                /\ Disjoint(c, d)
                /\ terms = <<a, b, c, d>>

\* ((a + b) + c) + d
GroupLeft ==
    /\ sums.left = None
    /\ sums' = [sums EXCEPT
                  !.left = Plus(Plus(Plus(terms[1], terms[2]), terms[3]), terms[4])]
    /\ UNCHANGED <<reg, pre, op, arg, ret, lastStore, terms,
                   mode, accesses, copy, ctx>>

\* a + (b + (c + d))
GroupRight ==
    /\ sums.right = None
    /\ sums' = [sums EXCEPT
                  !.right = Plus(terms[1], Plus(terms[2], Plus(terms[3], terms[4])))]
    /\ UNCHANGED <<reg, pre, op, arg, ret, lastStore, terms,
                   mode, accesses, copy, ctx>>

\* (a + b) + (c + d)
GroupPairs ==
    /\ sums.pairs = None
    /\ sums' = [sums EXCEPT
                  !.pairs = Plus(Plus(terms[1], terms[2]), Plus(terms[3], terms[4]))]
    /\ UNCHANGED <<reg, pre, op, arg, ret, lastStore, terms,
                   mode, accesses, copy, ctx>>

NextChain ==
    \/ GroupLeft
    \/ GroupRight
    \/ GroupPairs

SpecChain == InitChain /\ [][NextChain]_vars

(***************************************************************************)
(* Properties.                                                             *)
(***************************************************************************)
\* bit i of x
Bit(x, i) == (x \div (2 ^ i)) % 2

\* 0 <= val <= 2^width - 1
InRange(f) == FieldVal(f) >= 0 /\ FieldVal(f) <= (2 ^ f.d.width) - 1

HoldsField == ret.kind = "Some" /\ ret.v.kind = "Field"

\* C1: after modify(p), for every register value and every Positioned p (a
\* Field or a '+' chain of Fields), the bits outside p.mask() are as before
\* and the bits inside p.mask() are exactly p.in_position().
C1_ModifyFrameAndEffect ==
    op = "modify" =>
        /\ BitAnd(reg, BitNot(Mask(arg))) = BitAnd(pre, BitNot(Mask(arg)))
        /\ BitAnd(reg, Mask(arg)) = InPosition(arg)

\* C2: get_field of a field's descriptor, called right after modify(f) with
\* an in-range Field f of that descriptor, returns Some(Field) whose val()
\* is f.val().
C2_GetFieldAfterModify ==
    (/\ op = "get_field"
     /\ lastStore.kind = "modify"
     /\ lastStore.p.kind = "Field"
     /\ InRange(lastStore.p)
     /\ lastStore.p.d = arg.d)
    => /\ HoldsField
       /\ ret.v.d = arg.d
       /\ FieldVal(ret.v) = FieldVal(lastStore.p)

C2_Witness ==
    /\ op = "get_field"
    /\ lastStore.kind = "modify"
    /\ lastStore.p.kind = "Field"
    /\ lastStore.p.d = arg.d
    /\ arg.d.width = 2
    /\ arg.d.offset = 1
    /\ FieldVal(lastStore.p) = 2
    /\ reg = 13
    /\ HoldsField
    /\ FieldVal(ret.v) = 2

\* C3: read() right after write(v) returns v, whatever the register held
\* before the write.
C3_ReadAfterWrite ==
    (op = "read" /\ lastStore.kind = "write") => ret = WordVal(lastStore.v)

C3_Witness ==
    /\ op = "read"
    /\ lastStore.kind = "write"
    /\ lastStore.was = 9
    /\ lastStore.v = 6
    /\ ret = WordVal(6)

\* C4: Bounded::new(v) with bounds L < U returns Some iff L <= v <= U, the
\* value it wraps is v, and otherwise it returns None.
C4_BoundedNew ==
    op = "Bounded::new" =>
        /\ (ret.kind = "Some") <=> (arg.L <= arg.val /\ arg.val <= arg.U)
        /\ ret.kind = "Some" => (ret.v.kind = "Bounded" /\ ret.v.val = arg.val)
        /\ ret.kind # "Some" => ret = None

C4_Witness ==
    /\ op = "Bounded::new"
    /\ arg.L = 1
    /\ arg.U = 3
    /\ \/ (arg.val = 0 /\ ret = None)
       \/ (arg.val = 3 /\ ret.kind = "Some" /\ ret.v.val = 3)
       \/ (arg.val = 4 /\ ret = None)

\* C5: Field::new(value) for a field of width w returns Some(Field) with
\* val() = value iff 0 <= value <= 2^w - 1; for value >= 2^w it returns
\* None, and the register is as it was.
C5_FieldNew ==
    op = "Field::new" =>
        /\ HoldsField <=> (0 <= arg.val /\ arg.val <= (2 ^ arg.d.width) - 1)
        /\ HoldsField => (FieldVal(ret.v) = arg.val /\ ret.v.d = arg.d)
        /\ arg.val >= 2 ^ arg.d.width => ret = None
        /\ reg = pre

C5_Witness ==
    /\ op = "Field::new"
    /\ arg.d.width = 2
    /\ arg.val = 4
    /\ ret = None
    /\ reg = 5
    /\ pre = 5

\* C6: every live Field value f satisfies 0 <= f.val <= 2^width - 1,
\* whichever way it was produced: Field::new, Field::set, checked,
\* get_field, and the constants Read, Clear, Set and every enumerated
\* constant of the register description.
C6_LiveFieldInBounds ==
    HoldsField => (0 <= FieldVal(ret.v) /\ FieldVal(ret.v) <= (2 ^ ret.v.d.width) - 1)

\* C7: for every declaration with offset + width <= register width, the
\* field's mask has 1s in exactly the bit positions [offset, offset + width)
\* and 0s elsewhere, i.e. it equals ((1 << width) - 1) << offset, and the
\* field's upper bound is (1 << width) - 1.
C7_MaskAndUpperBound ==
    HoldsField =>
        LET d == ret.v.d
        IN  /\ \A i \in 0 .. (RegBits - 1) :
                (Bit(Mask(ret.v), i) = 1) <=> (d.offset <= i /\ i < d.offset + d.width)
            /\ Mask(ret.v) < Modulus
            /\ Mask(ret.v) = ((2 ^ d.width) - 1) * (2 ^ d.offset)
            /\ Reify(d.U) = (2 ^ d.width) - 1

C7_Witness ==
    /\ HoldsField
    /\ ret.v.d.width = 2
    /\ ret.v.d.offset = 1
    /\ Mask(ret.v) = 6
    /\ Reify(ret.v.d.U) = 3

\* the operands and the result of each '+' computed so far
Additions ==
    {e \in {[l |-> terms[1], r |-> terms[2], out |-> sums.ab],
            [l |-> terms[2], r |-> terms[1], out |-> sums.ba]} :
        e.out # None}
    \cup (IF Len(terms) = 3
          THEN {e \in {[l |-> terms[2], r |-> terms[3], out |-> sums.bc],
                       [l |-> sums.ab, r |-> terms[3], out |-> sums.ab_c],
                       [l |-> terms[1], r |-> sums.bc, out |-> sums.a_bc]} :
                   e.out # None}
          ELSE {})

PairwiseDisjoint ==
    \A i \in 1 .. Len(terms), j \in 1 .. Len(terms) :
        i # j => Disjoint(terms[i], terms[j])

\* C8: for every pair of operands '+' accepts (Field + Field,
\* Field + FieldDisj, FieldDisj + Field) the resulting FieldDisj has
\* mask() = a.mask() | b.mask() and in_position() = a.in_position() |
\* b.in_position().
C8_AddIsBitwiseOr ==
    \A e \in Additions :
        /\ e.out.kind = "FieldDisj"
        /\ Mask(e.out) = BitOr(Mask(e.l), Mask(e.r))
        /\ InPosition(e.out) = BitOr(InPosition(e.l), InPosition(e.r))

C8_Witness ==
    /\ Len(terms) = 3
    /\ sums.ab # None
    /\ sums.bc # None
    /\ sums.ab_c # None
    /\ sums.a_bc # None
    /\ Mask(sums.ab_c) = 7
    /\ InPosition(sums.ab_c) = 5
    /\ Mask(sums.bc) = 6

\* C9: for Fields a, b, c of pairwise disjoint masks, a + b and b + a give
\* the same (mask, value), and (a + b) + c and a + (b + c) give the same
\* (mask, value).
C9_AddCommutesAndAssociates ==
    PairwiseDisjoint =>
        /\ (sums.ab # None /\ sums.ba # None) =>
               (Mask(sums.ab) = Mask(sums.ba) /\ InPosition(sums.ab) = InPosition(sums.ba))
        /\ (sums.ab_c # None /\ sums.a_bc # None) =>
               (/\ Mask(sums.ab_c) = Mask(sums.a_bc)
                /\ InPosition(sums.ab_c) = InPosition(sums.a_bc))

C9_Witness ==
    /\ Len(terms) = 3
    /\ PairwiseDisjoint
    /\ sums.ab # None
    /\ sums.ba # None
    /\ sums.ab_c # None
    /\ sums.a_bc # None
    /\ InPosition(terms[1]) = 1
    /\ InPosition(terms[2]) = 2
    /\ InPosition(terms[3]) = 8
    /\ InPosition(sums.a_bc) = 11
    /\ Mask(sums.a_bc) = 15

\* C10: every FieldDisj produced by '+' from Fields of a register satisfies
\* value & ~mask = 0.
C10_DisjValueWithinMask ==
    \A e \in Additions : BitAnd(InPosition(e.out), BitNot(Mask(e.out))) = 0

\* the four masks, and the four positioned values, of the chain ORed
ChainMask ==
    BitOr(BitOr(Mask(terms[1]), Mask(terms[2])),
          BitOr(Mask(terms[3]), Mask(terms[4])))

ChainValue ==
    BitOr(BitOr(InPosition(terms[1]), InPosition(terms[2])),
          BitOr(InPosition(terms[3]), InPosition(terms[4])))

\* C11: a chain of four fields a + b + c + d combines under every grouping,
\* ((a + b) + c) + d, a + (b + (c + d)) and (a + b) + (c + d), a combined
\* write with another combined write included: each grouping gives a
\* FieldDisj of the four masks and the four positioned values ORed.
C11_EveryGroupingCombines ==
    \A g \in {"left", "right", "pairs"} :
        sums[g] # None =>
            /\ sums[g].kind = "FieldDisj"
            /\ Mask(sums[g]) = ChainMask
            /\ InPosition(sums[g]) = ChainValue

\* C12: each modify on a ReadWrite register makes exactly one load of the
\* register and then exactly one store to it, and the value stored is
\* (loaded & !p.mask()) | p.in_position(), for a single Field and for a
\* '+' chain alike.
C12_ModifyOneLoadOneStore ==
    (mode = "RW" /\ op = "modify") =>
        /\ Len(accesses) = 2
        /\ accesses[1] = Load(pre)
        /\ accesses[2].kind = "store"
        /\ accesses[2].v =
               BitOr(BitAnd(accesses[1].v, BitNot(Mask(arg))), InPosition(arg))
        /\ reg = accesses[2].v

C12_Witness ==
    /\ mode = "RW"
    /\ op = "modify"
    /\ arg.kind = "FieldDisj"
    /\ Mask(arg) = 6
    /\ InPosition(arg) = 2
    /\ pre = 13
    /\ accesses = <<Load(13), Store(11)>>
    /\ reg = 11

\* C13: modify on a WriteOnly register makes no load of the register: its
\* only access is one store.
C13_WOModifyNeverLoads ==
    (mode = "WO" /\ op = "modify") =>
        /\ \A i \in 1 .. Len(accesses) : accesses[i].kind # "load"
        /\ Len(accesses) = 1

\* C14: modify(p) on a WriteOnly register leaves the bits outside p.mask()
\* as they were and makes the bits inside p.mask() equal p.in_position().
C14_WOModifyFrameAndEffect ==
    (mode = "WO" /\ op = "modify") =>
        /\ BitAnd(reg, BitNot(Mask(arg))) = BitAnd(pre, BitNot(Mask(arg)))
        /\ BitAnd(reg, Mask(arg)) = InPosition(arg)

\* the value a query reads: the register's cell, or the raw value of the
\* copy for a query of a ReadOnlyCopy
Queried ==
    IF op \in {"copy.read", "copy.get_field", "copy.extract", "copy.is_set",
               "copy.matches_any", "copy.matches_all"}
    THEN copy.c.raw
    ELSE reg

\* the call just made was a query of the ReadOnlyCopy
OnCopy ==
    op \in {"copy.read", "copy.get_field", "copy.extract", "copy.is_set",
            "copy.matches_any", "copy.matches_all"}

\* field f has, inside raw, the value f carries
FieldMatches(raw, f) == Shr(BitAnd(raw, Mask(f)), f.d.offset) = FieldVal(f)

\* C15: matches_any(p) returns true iff at least one of the fields given in
\* p has, inside the register, the value given for it in p, for every
\* register value and every in-range field or pair of fields, on a
\* register and on a ReadOnlyCopy.
C15_MatchesAnyIffSomeFieldMatches ==
    op \in {"matches_any", "copy.matches_any"} =>
        ret = BoolVal(\E i \in 1 .. Len(arg.fields) :
                         FieldMatches(Queried, arg.fields[i]))

\* C16: matches_all(p) returns true iff every field given in p has, inside
\* the register, exactly the value given for it in p, for every register
\* value and every in-range field or pair of fields, on a register and on
\* a ReadOnlyCopy.
C16_MatchesAllIffEveryFieldMatches ==
    op \in {"matches_all", "copy.matches_all"} =>
        ret = BoolVal(\A i \in 1 .. Len(arg.fields) :
                         FieldMatches(Queried, arg.fields[i]))

\* what extract gives, and what each query of the copy answers: the answer
\* of the same query of the RW register on the value captured
CopyAnswers ==
    /\ op = "extract" =>
           /\ accesses = <<Load(reg)>>
           /\ reg = pre
           /\ ret = ReadOnlyCopy(reg)
           /\ copy = Held(ret, reg)
    /\ copy # None => copy.c.raw = copy.at
    /\ OnCopy => (accesses = <<>> /\ reg = pre)
    /\ op = "copy.read" => ret = WordVal(ReadValue(copy.at))
    /\ op = "copy.get_field" => ret = GetFieldValue(copy.at, arg)
    /\ op = "copy.is_set" => ret = BoolVal(IsSetValue(copy.at, arg))
    /\ op = "copy.matches_any" => ret = BoolVal(MatchesAnyValue(copy.at, arg.p))
    /\ op = "copy.matches_all" => ret = BoolVal(MatchesAllValue(copy.at, arg.p))

\* C17: extract makes one read and returns a ReadOnlyCopy whose raw value
\* is the register's value at that moment; read, get_field, is_set,
\* matches_any and matches_all of the copy answer what the register would
\* have answered when the copy was taken; and a later modify or write of
\* the register leaves the copy as it is.
C17_ExtractIsSnapshot ==
    /\ []CopyAnswers
    /\ [][(copy # None /\ op' # "extract") => copy' = copy]_vars

C17_Witness ==
    /\ op = "copy.matches_all"
    /\ copy.at = 6
    /\ copy.c.raw = 6
    /\ reg = 9
    /\ InPosition(arg.p) = 6
    /\ ret = BoolVal(TRUE)

\* C19: get_field(descriptor) on an RO or RW register makes one read of
\* the register, leaves its value unchanged and returns a Field of the
\* descriptor whose val() is (raw & mask) >> offset; on a ReadOnlyCopy it
\* returns the same of the copy's raw value, with no access to the
\* register.
C19_GetFieldExtracts ==
    /\ op = "get_field" => accesses = <<Load(reg)>>
    /\ op = "copy.get_field" => accesses = <<>>
    /\ op \in {"get_field", "copy.get_field"} =>
           /\ reg = pre
           /\ HoldsField
           /\ ret.v.d = arg.d
           /\ FieldVal(ret.v) = Shr(BitAnd(Queried, Mask(arg)), arg.d.offset)

C19_Witness ==
    /\ mode = "RO"
    /\ op = "get_field"
    /\ reg = 13
    /\ arg.d.width = 2
    /\ arg.d.offset = 1
    /\ HoldsField
    /\ FieldVal(ret.v) = 2

\* C20: is_set(descriptor) on a register or a ReadOnlyCopy returns true iff
\* (raw & mask) >> offset equals 2^width - 1, which for a 1-bit field is
\* iff the field's bit is 1; Field::is_set() is true iff val() equals
\* 2^width - 1.
C20_IsSetIffMaximum ==
    /\ op \in {"is_set", "copy.is_set"} =>
           /\ ret = BoolVal(Shr(BitAnd(Queried, Mask(arg)), arg.d.offset)
                               = (2 ^ arg.d.width) - 1)
           /\ arg.d.width = 1 => ret = BoolVal(Bit(Queried, arg.d.offset) = 1)
    /\ op = "Field::is_set" =>
           ret = BoolVal(FieldVal(arg) = (2 ^ arg.d.width) - 1)

C20_Witness ==
    /\ mode = "RW"
    /\ op = "is_set"
    /\ reg = 13
    /\ arg.d.width = 2
    /\ arg.d.offset = 1
    /\ ret = BoolVal(FALSE)

\* both contexts have returned from modify
BothDone == \A c \in Contexts : ctx[c].pc = "done"

\* both loads came before either store
LoadsFirst ==
    /\ Len(accesses) >= 2
    /\ accesses[1].kind = "load"
    /\ accesses[2].kind = "load"

\* each load-store pair ran without the other in between
Serialized ==
    /\ Len(accesses) = 4
    /\ accesses[1].c = accesses[2].c
    /\ accesses[3].c = accesses[4].c

\* the update of context c is in the register
Present(c) == BitAnd(reg, Mask(ctx[c].p)) = InPosition(ctx[c].p)

\* the update of one context is lost: a state the interleaving reaches
LostUpdate ==
    /\ BothDone
    /\ LoadsFirst
    /\ \E c \in Contexts : ~Present(c)

\* C18: two modify calls on one register with disjoint masks.  When both
\* loads precede either store the register ends as if the context that
\* stored last had run alone, so the update of the other is lost; when
\* the two calls are serialized both updates are present in the final
\* value.
C18_SerializedKeepsBothUpdates ==
    BothDone =>
        /\ LoadsFirst => reg = ModifyValue(pre, ctx[accesses[4].c].p)
        /\ Serialized => \A c \in Contexts : Present(c)

\* C26: for every declared width w >= 1 with offset + w <= register width,
\* a field as wide as a 32-bit register and w = 31 included, the Set
\* constant holds 2^w - 1: ((1 << w) - 1) as Width is computed without
\* overflow or truncation.
C26_SetConstantIsMaximum ==
    op = "Set" => ret = WordVal((2 ^ arg.width) - 1)

C22_CheckedYieldsV ==
    /\ op = "Bounded::checked" =>
           /\ ret.kind = "Bounded"
           /\ ret.val = arg.val
           /\ arg.L <= ret.val /\ ret.val <= arg.U
           /\ reg = pre
    /\ op = "Field::checked" =>
           /\ HoldsField
           /\ FieldVal(ret.v) = arg.val
           /\ InRange(ret.v)
           /\ reg = pre

C22_Witness ==
    \/ /\ op = "Bounded::checked"
       /\ arg = [val |-> 2, L |-> 1, U |-> 3]
       /\ ret.val = 2
    \/ /\ op = "Field::checked"
       /\ arg.d = FieldDecl(2, 1)
       /\ arg.val = 3
       /\ FieldVal(ret.v) = 3

\* the field of the i-th declaration holding the last value given to it
LastField(i) == MkField(terms[i], Bounded(ctx.last[i].v, 0, terms[i].U))

\* C23: for in-range fields a, b, c of pairwise disjoint masks, the three
\* calls modify(a), modify(b), modify(c), in any order, leave the register
\* as the one call modify(a + b + c) does.
C23_JoinedEqualsSeparate ==
    (op = "modify" /\ ~ctx.again /\ \A i \in 1 .. 3 : ctx.last[i] # None) =>
        reg = ModifyValue(ctx.start,
                          AddDisjField(AddFieldField(LastField(1), LastField(2)),
                                       LastField(3)))

C23_Witness ==
    /\ op = "modify"
    /\ ~ctx.again
    /\ ctx.start = 0
    /\ terms = <<FieldDecl(1, 0), FieldDecl(1, 1), FieldDecl(2, 2)>>
    /\ ctx.last = <<Some(0), Some(1), Some(2)>>
    /\ reg = 10

\* the bits of the register that the three declarations cover
Covered == BitOr(BitOr(Reify(terms[1].M), Reify(terms[2].M)), Reify(terms[3].M))

\* C30: from new(v), after any sequence of modify calls that give in-range
\* values to fields of pairwise disjoint masks, get_field reads back the
\* last value given to a field, or the field's bits of v if none was given;
\* the bits no field covers are those of v.
C30_FieldsReadBackLatest ==
    /\ BitAnd(reg, BitNot(Covered)) = BitAnd(ctx.start, BitNot(Covered))
    /\ op = "get_field" =>
           \A i \in 1 .. 3 :
               arg.d = terms[i] =>
                   /\ HoldsField
                   /\ FieldVal(ret.v) =
                          IF ctx.last[i] # None
                          THEN ctx.last[i].v
                          ELSE Shr(BitAnd(ctx.start, terms[i].M), terms[i].offset)

C30_Witness ==
    /\ op = "get_field"
    /\ ctx.again
    /\ ctx.start = 15
    /\ terms = <<FieldDecl(1, 0), FieldDecl(1, 1), FieldDecl(2, 2)>>
    /\ ctx.last = <<None, Some(0), Some(1)>>
    /\ arg.d = FieldDecl(2, 2)
    /\ HoldsField
    /\ FieldVal(ret.v) = 1
    /\ reg = 5

\* the bits of the fields given to a query, each value at its offset
PositionedBits(fs) ==
    {k \in 0 .. (RegBits - 1) :
        \E i \in 1 .. Len(fs) :
            /\ k >= fs[i].d.offset
            /\ k < fs[i].d.offset + fs[i].d.width
            /\ Bit(FieldVal(fs[i]), k - fs[i].d.offset) = 1}

\* the register is as it was, after one load of it, or after no access to
\* it for a query of a ReadOnlyCopy
OneReadNoWrite ==
    /\ reg = pre
    /\ accesses = IF OnCopy THEN <<>> ELSE <<Load(reg)>>

C27_OverlapIsSilentOr ==
    /\ sums.ab # None =>
           /\ sums.ab.kind = "FieldDisj"
           /\ Mask(sums.ab) = BitOr(Mask(terms[1]), Mask(terms[2]))
           /\ InPosition(sums.ab) =
                  BitOr(InPosition(terms[1]), InPosition(terms[2]))
    /\ (op = "get_field" /\ terms[1].d = terms[2].d) =>
           /\ HoldsField
           /\ FieldVal(ret.v) = BitOr(FieldVal(terms[1]), FieldVal(terms[2]))

\* C28: in every mode and for every initial value v, new(v) gives a
\* register, with no failure to return, whose location holds v whatever it
\* held before; read() right after new(v) on a readable register returns v.
C28_NewSeedsValue ==
    /\ op = "new" => (reg = arg.v /\ ret = Unit)
    /\ op = "read" => (ret = arg /\ reg = arg.v)

C28_Witness ==
    \/ /\ op = "new"
       /\ mode = "WO"
       /\ pre = 9
       /\ arg = WordVal(6)
       /\ reg = 6
    \/ /\ op = "read"
       /\ mode = "RO"
       /\ pre = 9
       /\ arg = WordVal(6)
       /\ ret = WordVal(6)

\* C29: for every raw value and every well-formed descriptor, get_field on
\* a register or a ReadOnlyCopy never returns None: it returns the Field of
\* the descriptor with (raw & mask) >> offset, which lies in 0 .. 2^width - 1,
\* whatever value the Field given as argument carries.
C29_GetFieldNeverNone ==
    op \in {"get_field", "copy.get_field"} =>
        /\ ret # None
        /\ ret = Some([kind |-> "Field",
                       d |-> arg.d,
                       val |-> Shr(BitAnd(Queried, arg.d.M), arg.d.offset)])
        /\ InRange(ret.v)

C29_Witness ==
    /\ op = "copy.get_field"
    /\ copy.c.raw = 5
    /\ arg = SetConst(FieldDecl(2, 1))
    /\ FieldVal(arg) = 3
    /\ HoldsField
    /\ FieldVal(ret.v) = 2

====
